---- MODULE Spec2Model ----
(***************************************************************************)
(* Model of the onboard software of one quadrotor (xhy5588/NUlab):         *)
(*   - FlightControllerInterface.run (src/fc_handler.py): the driver       *)
(*     worker that owns the hardware link, with the other workers that     *)
(*     share the blackboard as its environment;                            *)
(*   - ProcessManager (src/bootloader.py): creation, start and teardown    *)
(*     of the six worker processes.                                        *)
(* Times are in milliseconds, voltages in millivolts, command values that  *)
(* arrive from the blackboard in half units (floats with one binary        *)
(* fraction digit), so that int() is a real truncation.                    *)
(***************************************************************************)
EXTENDS Integers, Sequences, FiniteSets, TLC

(***************************************************************************)
(* Bounds of the exploration.                                              *)
(***************************************************************************)
MaxTicks == 8
MaxScriptTicks == 10
MaxBatches == 1
MaxOtherWrites == 1
MaxRampBatches == 10
MaxCalls == 4
MaxChecks == 2
MaxPackets == 65540

(***************************************************************************)
(* Program constants of the driver (FlightControllerInterface.__init__).   *)
(***************************************************************************)
max_diff == 50
max_command == 1950
min_command == 900
low_voltage_threshold == 6400
low_voltage_threshold_timer_short == 2 * 1000
low_voltage_threshold_timer == 3000
SLOW_MSGS_LOOP_TIME == 200
start_up_time == 5000

\* One second of wall-clock time: the step by which the model's clock moves.
TickMs == 5 * SLOW_MSGS_LOOP_TIME

\* Safety codes of the blackboard.
Normal == 0
EmergencyStop == 1
Shutdown == 2
LowVoltage == 4
Connecting == 5
NoCode == 0 - 1

SafetyCodes == {Normal, EmergencyStop, Shutdown, LowVoltage, Connecting}
\* Codes written by workers other than the driver.
OtherCodes == {Normal, EmergencyStop, Shutdown}

CMDS_ORDER == <<"roll", "pitch", "throttle", "yaw", "aux1", "aux2">>
Analog == {"roll", "pitch", "throttle", "yaw"}

(***************************************************************************)
(* Values found in a command batch: a float x is [num |-> TRUE, h |-> 2x], *)
(* NaN (and anything else int() rejects) is [num |-> FALSE, h |-> 0].      *)
(***************************************************************************)
F(x) == [num |-> TRUE, h |-> 2 * x]
Half(x) == [num |-> TRUE, h |-> 2 * x + 1]
NaN == [num |-> FALSE, h |-> 0]

Abs(x) == IF x < 0 THEN 0 - x ELSE x

\* Python int() of a float: truncation towards zero.
PyInt(v) == IF v.h >= 0 THEN v.h \div 2 ELSE 0 - ((0 - v.h) \div 2)

\* The command dictionary set up by the constructor.
InitCMDS ==
  [roll |-> 1500, pitch |-> 1500, throttle |-> 900, yaw |-> 1500,
   aux1 |-> F(1000), aux2 |-> F(1500)]

\* Variant: the vector of foobar(), which arms.
ArmedCMDS ==
  [roll |-> 1500, pitch |-> 1500, throttle |-> 900, yaw |-> 1500,
   aux1 |-> F(1800), aux2 |-> F(1500)]

\* The vector written by every iteration of initial_cmds.
DisarmedCMDS ==
  [roll |-> 1500, pitch |-> 1500, throttle |-> 900, yaw |-> 1500,
   aux1 |-> F(1000), aux2 |-> F(1500)]

\* The list handed to board.send_RAW_RC.
Frame(c) == [i \in 1..6 |-> c[CMDS_ORDER[i]]]

\* Variant: the slew limit without the absolute envelope.
fc_protector_no_envelope(control_value, old_value) ==
  IF ~control_value.num
  THEN 1500
  ELSE LET cv == PyInt(control_value)
       IN IF Abs(cv - old_value) > max_diff
          THEN IF cv < old_value THEN old_value - max_diff
               ELSE IF cv > old_value THEN old_value + max_diff
               ELSE cv
          ELSE cv

\* Variant: a failed computation keeps the old value of the channel.
fc_protector_hold(control_value, old_value) ==
  IF ~control_value.num
  THEN old_value
  ELSE LET cv == PyInt(control_value)
           slewed == IF Abs(cv - old_value) > max_diff
                     THEN IF cv < old_value THEN old_value - max_diff
                          ELSE IF cv > old_value THEN old_value + max_diff
                          ELSE cv
                     ELSE cv
       IN IF slewed > max_command THEN max_command
          ELSE IF slewed < min_command THEN min_command
          ELSE slewed

(***************************************************************************)
(* _fc_protector: slew limit against the old value, then the absolute      *)
(* envelope; any failure of the computation returns 1500.                  *)
(***************************************************************************)
fc_protector(control_value, old_value) ==
  IF ~control_value.num
  THEN 1500
  ELSE LET cv == PyInt(control_value)
           slewed == IF Abs(cv - old_value) > max_diff
                     THEN IF cv < old_value THEN old_value - max_diff
                          ELSE IF cv > old_value THEN old_value + max_diff
                          ELSE cv
                     ELSE cv
       IN IF slewed > max_command THEN max_command
          ELSE IF slewed < min_command THEN min_command
          ELSE slewed

\* Variant: the two aux channels written into each other's key.
process_cmds_aux_swapped(commands, old) ==
  [roll |-> fc_protector(commands[1], old.roll),
   pitch |-> fc_protector(commands[2], old.pitch),
   throttle |-> fc_protector(commands[3], old.throttle),
   yaw |-> fc_protector(commands[4], old.yaw),
   aux1 |-> commands[6],
   aux2 |-> commands[5]]

\* _process_cmds: bound the four analog channels, pass the aux channels through.
process_cmds(commands, old) ==
  [roll |-> fc_protector(commands[1], old.roll),
   pitch |-> fc_protector(commands[2], old.pitch),
   throttle |-> fc_protector(commands[3], old.throttle),
   yaw |-> fc_protector(commands[4], old.yaw),
   aux1 |-> commands[5],
   aux2 |-> commands[6]]

(***************************************************************************)
(* Inputs of the environment.                                              *)
(***************************************************************************)
Batches ==
  { <<F(2000), Half(1540), NaN, F(0), F(1800), F(1500)>>,
    <<NaN, F(0), F(0), F(1502), F(1000), F(2000)>> }

\* A controller that keeps asking for more than the envelope allows.
RampBatch == <<F(2000), F(2000), F(2000), F(2000), F(1800), F(1500)>>

Voltages == {6300, 6400, 6500}

VARIABLES
  fcPc,                       \* position of the driver worker in run()
  CMDS,                       \* self.CMDS
  safety,                     \* blackboard: safety code
  now,                        \* time.time()
  last_slow_msg_time,         \* self.last_slow_msg_time
  last_time_above_threshold,  \* self.last_time_above_threshold
  start_time,                 \* initial_cmds: start_time
  voltage,                    \* self.voltage
  low_voltage_warning,        \* blackboard: low-voltage warning flag
  board_connected,            \* blackboard: board connected flag
  cmdBuf,                     \* blackboard: fresh command batch, if any
  pipe,                       \* messages sent on bootloader_pipe_connection
  safetyRead,                 \* run(): local variable safety
  tx,                         \* last frame handed to board.send_RAW_RC
  profile,                    \* which environment drives the driver
  nBatches,                   \* history: batches written by the controller
  nOtherWrites,               \* history: safety writes by other workers
  nSamples,                   \* history: battery samples taken
  lvCount,                    \* history: set_safety(4) calls of the driver
  lastHigh,                   \* history: time of the last sample >= threshold
  othersWrote                 \* history: another worker wrote the safety code
                              \*          since the driver's set_safety(5)

fcVars == <<fcPc, CMDS, safety, now, last_slow_msg_time, last_time_above_threshold,
            start_time, voltage, low_voltage_warning, board_connected, cmdBuf,
            pipe, safetyRead, tx, profile, nBatches, nOtherWrites,
            nSamples, lvCount, lastHigh, othersWrote>>

\* ProcessManager (src/bootloader.py).
VARIABLES
  procTable,          \* every mp.Process object created so far: [name, st]
  processes,          \* self.processes: indexes into procTable
  objects,            \* self.objects: keys in insertion order
  pipes,              \* self.pipes: keys
  user_code_process,  \* self.user_code_process (0: attribute not set)
  kaPc,               \* position of the supervisor inside kill_all
  kaI,                \* kill_all: loop index
  callLog,            \* history: the calls made on the manager
  lastResult,         \* history: outcome of the last call
  hooksTried,         \* history: exit hooks attempted by the current kill_all
  hookRaised          \* history: an exit hook raised in the current kill_all

pmVars == <<procTable, processes, objects, pipes, user_code_process, kaPc, kaI,
            callLog, lastResult, hooksTried, hookRaised>>

VARIABLES
  top,                \* the __main__ block: pc, tries, and how often main() was entered
  mn                  \* the frame of main(): pc, locals, log file, and history

mainVars == <<top, mn>>

VARIABLES
  sequence_number,    \* fake_tracking.main: the number of the next packet
  nSent,              \* history: packets sent so far
  net,                \* the packet waiting in the listener's socket, if any
  last_opti_count,    \* OptitrackInterfaceUDP.last_opti_count
  first_data,         \* OptitrackInterfaceUDP.first_data
  lastReturn          \* history: what the last run() found and returned

optiVars == <<sequence_number, nSent, net, last_opti_count, first_data, lastReturn>>

vars == <<fcVars, pmVars, mainVars, optiVars>>

\* What an action of one component leaves alone.
notFC == <<pmVars, mainVars, optiVars>>
notPM == <<fcVars, mainVars, optiVars>>
notMain == <<fcVars, optiVars>>
notOpti == <<fcVars, pmVars, mainVars>>

NoTime == 0 - 1
NoFrame == [phase |-> "none", frame |-> Frame(InitCMDS)]

InitFC ==
  /\ fcPc = "created"
  /\ CMDS = InitCMDS
  /\ safety = Normal
  /\ now = 0
  /\ last_slow_msg_time = 0
  /\ last_time_above_threshold = 0
  /\ start_time = NoTime
  /\ voltage = 0 - 1000
  /\ low_voltage_warning = FALSE
  /\ board_connected = FALSE
  /\ cmdBuf = <<>>
  /\ pipe = <<>>
  /\ safetyRead = NoCode
  /\ tx = NoFrame
  /\ profile \in {"open", "ramp"}
  /\ nBatches = 0
  /\ nOtherWrites = 0
  /\ nSamples = 0
  /\ lvCount = 0
  /\ lastHigh = NoTime
  /\ othersWrote = FALSE

\* The except clause of run(): one fault report, then return.
Fault ==
  /\ pipe' = Append(pipe, "error")
  /\ fcPc' = "exited"

\* board.send_RAW_RC of the live vector.
Transmit(phase, c) ==
  tx' = [phase |-> phase, frame |-> Frame(c)]

\* run() up to the opening of the link.
FCStart ==
  /\ fcPc = "created"
  /\ fcPc' = "connect"
  /\ pipe' = Append(pipe, "trying")
  /\ UNCHANGED <<CMDS, safety, now, last_slow_msg_time, last_time_above_threshold,
                 start_time, voltage, low_voltage_warning, board_connected, cmdBuf,
                 safetyRead, tx, profile, nBatches, nOtherWrites,
                 nSamples, lvCount, lastHigh, othersWrote>>
  /\ UNCHANGED notFC

\* MSPy(...) as board, then set_board_connected(1).  The link is opened;
\* or it is not and the with statement yields board == 1 (the case the
\* commented-out test of board == 1 was written for), after which
\* set_board_connected(1) is executed all the same; or opening it raises.
FCConnect ==
  /\ fcPc = "connect"
  /\ \/ /\ board_connected' = TRUE
        /\ fcPc' = "bootstrap"
        /\ UNCHANGED pipe
     \/ /\ board_connected' = TRUE
        /\ fcPc' = "nolink"
        /\ UNCHANGED pipe
     \/ /\ Fault
        /\ UNCHANGED board_connected
  /\ UNCHANGED <<CMDS, safety, now, last_slow_msg_time, last_time_above_threshold,
                 start_time, voltage, low_voltage_warning, cmdBuf,
                 safetyRead, tx, profile, nBatches, nOtherWrites,
                 nSamples, lvCount, lastHigh, othersWrote>>
  /\ UNCHANGED notFC

\* board == 1: the first use of the board, board.INAV, raises.
FCNoLink ==
  /\ fcPc = "nolink"
  /\ Fault
  /\ UNCHANGED <<CMDS, safety, now, last_slow_msg_time, last_time_above_threshold,
                 start_time, voltage, low_voltage_warning, board_connected, cmdBuf,
                 safetyRead, tx, profile, nBatches, nOtherWrites,
                 nSamples, lvCount, lastHigh, othersWrote>>
  /\ UNCHANGED notFC

\* The bootstrap requests, set_safety(5) and the entry of initial_cmds.
FCBootstrap ==
  /\ fcPc = "bootstrap"
  /\ \/ /\ safety' = Connecting
        /\ othersWrote' = FALSE
        /\ start_time' = now
        /\ fcPc' = "warmup"
        /\ UNCHANGED pipe
     \/ /\ Fault
        /\ UNCHANGED <<safety, othersWrote, start_time>>
  /\ UNCHANGED <<CMDS, now, last_slow_msg_time, last_time_above_threshold,
                 voltage, low_voltage_warning, board_connected, cmdBuf,
                 safetyRead, tx, profile, nBatches, nOtherWrites,
                 nSamples, lvCount, lastHigh>>
  /\ UNCHANGED notFC

\* One iteration of the loop of initial_cmds.
initial_cmds ==
  /\ fcPc = "warmup"
  /\ now < start_time + start_up_time
  /\ CMDS' = DisarmedCMDS
  /\ \/ /\ Transmit("warmup", CMDS')
        /\ UNCHANGED <<fcPc, pipe>>
     \/ /\ Fault
        /\ UNCHANGED tx
  /\ UNCHANGED <<safety, now, last_slow_msg_time, last_time_above_threshold,
                 start_time, voltage, low_voltage_warning, board_connected, cmdBuf,
                 safetyRead, profile, nBatches, nOtherWrites,
                 nSamples, lvCount, lastHigh, othersWrote>>
  /\ UNCHANGED notFC

\* initial_cmds returns; get_safety() == 5 is tested.
FCWarmupEnd ==
  /\ fcPc = "warmup"
  /\ ~(now < start_time + start_up_time)
  /\ fcPc' = IF safety = Connecting THEN "reset" ELSE "poll"
  /\ UNCHANGED <<CMDS, safety, now, last_slow_msg_time, last_time_above_threshold,
                 start_time, voltage, low_voltage_warning, board_connected, cmdBuf,
                 pipe, safetyRead, tx, profile, nBatches, nOtherWrites,
                 nSamples, lvCount, lastHigh, othersWrote>>
  /\ UNCHANGED notFC

\* Variant: the end of the warm-up without the write of Normal(0).
FCWarmupReset_keeps ==
  /\ fcPc = "reset"
  /\ fcPc' = "poll"
  /\ UNCHANGED <<CMDS, safety, now, last_slow_msg_time, last_time_above_threshold,
                 start_time, voltage, low_voltage_warning, board_connected, cmdBuf,
                 pipe, safetyRead, tx, profile, nBatches, nOtherWrites,
                 nSamples, lvCount, lastHigh, othersWrote>>
  /\ UNCHANGED notFC

\* set_safety(0) after the warm-up.
FCWarmupReset ==
  /\ fcPc = "reset"
  /\ safety' = Normal
  /\ fcPc' = "poll"
  /\ UNCHANGED <<CMDS, now, last_slow_msg_time, last_time_above_threshold,
                 start_time, voltage, low_voltage_warning, board_connected, cmdBuf,
                 pipe, safetyRead, tx, profile, nBatches, nOtherWrites,
                 nSamples, lvCount, lastHigh, othersWrote>>
  /\ UNCHANGED notFC

\* Variant: get_commands(blocking=True), which waits for a fresh batch.
FCPoll_blocking ==
  /\ fcPc = "poll"
  /\ cmdBuf # <<>>
  /\ CMDS' = process_cmds(cmdBuf[1], CMDS)
  /\ cmdBuf' = <<>>
  /\ fcPc' = "safety"
  /\ UNCHANGED <<safety, now, last_slow_msg_time, last_time_above_threshold,
                 start_time, voltage, low_voltage_warning, board_connected,
                 pipe, safetyRead, tx, profile, nBatches, nOtherWrites,
                 nSamples, lvCount, lastHigh, othersWrote>>
  /\ UNCHANGED notFC

\* get_commands(clear_fresh_flag=True, blocking=False) and _process_cmds.
FCPoll ==
  /\ fcPc = "poll"
  /\ IF cmdBuf # <<>>
     THEN /\ CMDS' = process_cmds(cmdBuf[1], CMDS)
          /\ cmdBuf' = <<>>
     ELSE UNCHANGED <<CMDS, cmdBuf>>
  /\ fcPc' = "safety"
  /\ UNCHANGED <<safety, now, last_slow_msg_time, last_time_above_threshold,
                 start_time, voltage, low_voltage_warning, board_connected,
                 pipe, safetyRead, tx, profile, nBatches, nOtherWrites,
                 nSamples, lvCount, lastHigh, othersWrote>>
  /\ UNCHANGED notFC

\* Variant: the test of the code takes LowVoltage(4) for a stop code too.
FCReadSafety_low_exits ==
  /\ fcPc = "safety"
  /\ safetyRead' = safety
  /\ fcPc' = IF safety = EmergencyStop \/ safety = Shutdown \/ safety = LowVoltage
             THEN "reboot" ELSE "tx"
  /\ UNCHANGED <<CMDS, safety, now, last_slow_msg_time, last_time_above_threshold,
                 start_time, voltage, low_voltage_warning, board_connected, cmdBuf,
                 pipe, tx, profile, nBatches, nOtherWrites,
                 nSamples, lvCount, lastHigh, othersWrote>>
  /\ UNCHANGED notFC

\* safety = data_manager.get_safety() and the test of the code.
FCReadSafety ==
  /\ fcPc = "safety"
  /\ safetyRead' = safety
  /\ fcPc' = IF safety = EmergencyStop \/ safety = Shutdown THEN "reboot" ELSE "tx"
  /\ UNCHANGED <<CMDS, safety, now, last_slow_msg_time, last_time_above_threshold,
                 start_time, voltage, low_voltage_warning, board_connected, cmdBuf,
                 pipe, tx, profile, nBatches, nOtherWrites,
                 nSamples, lvCount, lastHigh, othersWrote>>
  /\ UNCHANGED notFC

\* board.reboot() and the report to the bootloader.
FCReboot ==
  /\ fcPc = "reboot"
  /\ \/ /\ pipe' = Append(pipe, "estop")
        /\ fcPc' = "zero"
     \/ Fault
  /\ UNCHANGED <<CMDS, safety, now, last_slow_msg_time, last_time_above_threshold,
                 start_time, voltage, low_voltage_warning, board_connected, cmdBuf,
                 safetyRead, tx, profile, nBatches, nOtherWrites,
                 nSamples, lvCount, lastHigh, othersWrote>>
  /\ UNCHANGED notFC

\* set_safety(0) of the safety exit.
FCSetZero ==
  /\ fcPc = "zero"
  /\ safety' = Normal
  /\ fcPc' = "five"
  /\ UNCHANGED <<CMDS, now, last_slow_msg_time, last_time_above_threshold,
                 start_time, voltage, low_voltage_warning, board_connected, cmdBuf,
                 pipe, safetyRead, tx, profile, nBatches, nOtherWrites,
                 nSamples, lvCount, lastHigh, othersWrote>>
  /\ UNCHANGED notFC

\* set_safety(5) of the safety exit.
FCSetFive ==
  /\ fcPc = "five"
  /\ safety' = Connecting
  /\ othersWrote' = FALSE
  /\ fcPc' = "return"
  /\ UNCHANGED <<CMDS, now, last_slow_msg_time, last_time_above_threshold,
                 start_time, voltage, low_voltage_warning, board_connected, cmdBuf,
                 pipe, safetyRead, tx, profile, nBatches, nOtherWrites,
                 nSamples, lvCount, lastHigh>>
  /\ UNCHANGED notFC

\* return: the link is closed and the worker ends.
FCReturn ==
  /\ fcPc = "return"
  /\ fcPc' = "exited"
  /\ UNCHANGED <<CMDS, safety, now, last_slow_msg_time, last_time_above_threshold,
                 start_time, voltage, low_voltage_warning, board_connected, cmdBuf,
                 pipe, safetyRead, tx, profile, nBatches, nOtherWrites,
                 nSamples, lvCount, lastHigh, othersWrote>>
  /\ UNCHANGED notFC

\* board.send_RAW_RC of the live vector in the Operating loop.
FCTransmit ==
  /\ fcPc = "tx"
  /\ \/ /\ Transmit("operating", CMDS)
        /\ fcPc' = "slow"
        /\ UNCHANGED pipe
     \/ /\ Fault
        /\ UNCHANGED tx
  /\ UNCHANGED <<CMDS, safety, now, last_slow_msg_time, last_time_above_threshold,
                 start_time, voltage, low_voltage_warning, board_connected, cmdBuf,
                 safetyRead, profile, nBatches, nOtherWrites,
                 nSamples, lvCount, lastHigh, othersWrote>>
  /\ UNCHANGED notFC

\* Variant: the window has to be exceeded, not reached.
EscalationDue_strict(t, above) == t - above > low_voltage_threshold_timer

\* The low-voltage watchdog: is the escalation due for a sample taken at t?
EscalationDue(t, above) == t - above >= low_voltage_threshold_timer

\* The slow-message block of the Operating loop, with battery sample v.
FCSlow(v) ==
  /\ fcPc = "slow"
  /\ IF now - last_slow_msg_time >= SLOW_MSGS_LOOP_TIME
     THEN /\ last_slow_msg_time' = now
          /\ \/ /\ voltage' = v
                /\ nSamples' = nSamples + 1
                /\ fcPc' = "poll"
                /\ IF v < low_voltage_threshold
                   THEN /\ IF EscalationDue(last_slow_msg_time', last_time_above_threshold)
                           THEN /\ safety' = LowVoltage
                                /\ pipe' = Append(pipe, "lowvolt")
                                /\ low_voltage_warning' = TRUE
                                /\ lvCount' = lvCount + 1
                           ELSE UNCHANGED <<safety, pipe, low_voltage_warning, lvCount>>
                        /\ UNCHANGED <<last_time_above_threshold, lastHigh>>
                   ELSE /\ last_time_above_threshold' = last_slow_msg_time'
                        /\ lastHigh' = last_slow_msg_time'
                        /\ UNCHANGED <<safety, pipe, low_voltage_warning, lvCount>>
             \/ /\ Fault
                /\ UNCHANGED <<voltage, nSamples, safety, low_voltage_warning, lvCount,
                               last_time_above_threshold, lastHigh>>
     ELSE /\ fcPc' = "poll"
          /\ UNCHANGED <<last_slow_msg_time, voltage, nSamples, safety, pipe,
                         low_voltage_warning, lvCount, last_time_above_threshold,
                         lastHigh>>
  /\ UNCHANGED <<CMDS, now, start_time, board_connected, cmdBuf,
                 safetyRead, tx, profile, nBatches, nOtherWrites,
                 othersWrote>>
  /\ UNCHANGED notFC

(***************************************************************************)
(* The environment of the driver.                                          *)
(***************************************************************************)
\* The wall clock moves on by one second, up to the given number of seconds.
ClockStep(limit) ==
  /\ now + TickMs <= limit * TickMs
  /\ profile = "ramp" => fcPc \in {"created", "connect", "bootstrap", "warmup"}
  /\ now' = now + TickMs
  /\ UNCHANGED <<fcPc, CMDS, safety, last_slow_msg_time, last_time_above_threshold,
                 start_time, voltage, low_voltage_warning, board_connected, cmdBuf,
                 pipe, safetyRead, tx, profile, nBatches, nOtherWrites,
                 nSamples, lvCount, lastHigh, othersWrote>>
  /\ UNCHANGED notFC

Tick == ClockStep(MaxTicks)

\* Another worker calls set_safety(code).
OtherSetSafety(code) ==
  /\ profile = "open"
  /\ nOtherWrites < MaxOtherWrites
  /\ nOtherWrites' = nOtherWrites + 1
  /\ safety' = code
  /\ othersWrote' = TRUE
  /\ UNCHANGED <<fcPc, CMDS, now, last_slow_msg_time, last_time_above_threshold,
                 start_time, voltage, low_voltage_warning, board_connected, cmdBuf,
                 pipe, safetyRead, tx, profile, nBatches,
                 nSamples, lvCount, lastHigh>>
  /\ UNCHANGED notFC

\* The controller publishes a fresh command batch.
PutCommands(b) ==
  /\ nBatches < IF profile = "ramp" THEN MaxRampBatches ELSE MaxBatches
  /\ nBatches' = nBatches + 1
  /\ cmdBuf' = <<b>>
  /\ UNCHANGED <<fcPc, CMDS, safety, now, last_slow_msg_time, last_time_above_threshold,
                 start_time, voltage, low_voltage_warning, board_connected,
                 pipe, safetyRead, tx, profile, nOtherWrites,
                 nSamples, lvCount, lastHigh, othersWrote>>
  /\ UNCHANGED notFC

\* The inputs each environment profile offers.
BatchesOf(p) == IF p = "ramp" THEN {RampBatch} ELSE Batches
VoltagesOf(p) == IF p = "ramp" THEN {6500} ELSE Voltages

MAX_TRYS == 1

(***************************************************************************)
(* ProcessManager.                                                         *)
(***************************************************************************)
name_list == <<"localizer", "fc handler", "control manager", "user code handler",
               "sender", "receiver">>

\* Process.is_alive(): started and not yet ended.
IsAlive(p) == p.st \in {"started", "terminating", "deaf"}

InitPM ==
  /\ procTable = <<>>
  /\ processes = <<>>
  /\ objects = <<>>
  /\ pipes = {}
  /\ user_code_process = 0
  /\ kaPc = "idle"
  /\ kaI = 0
  /\ callLog = <<>>
  /\ lastResult = "none"
  /\ hooksTried = 0
  /\ hookRaised = FALSE

\* The supervisor is free to make its next call on the manager.
CanCall == kaPc = "idle" /\ Len(callLog) < MaxCalls

\* Who calls: any caller while main() is not part of the run, otherwise
\* main() at the statement that makes this call, once.
MayCall(op) ==
  \/ mn.pc = "free"
  \/ mn.pc = op /\ Len(callLog) = mn.callsSeen

\* make_processes: the process objects it appends, none of them started.
MadeTable(pt) ==
  pt \o [i \in 1..Len(name_list) |-> [name |-> name_list[i], st |-> "initial"]]

MadeProcesses(ps, pt) == ps \o [i \in 1..Len(name_list) |-> Len(pt) + i]

\* make_processes: self.objects[name] = obj keeps the position of a known key.
MadeObjects(os) ==
  os \o SelectSeq(name_list, LAMBDA n : \A j \in 1..Len(os) : os[j] # n)

UserCodeIndex == CHOOSE i \in 1..Len(name_list) : name_list[i] = "user code handler"

\* Variant: the start loop without the test of the name.
StartsAtStartup_all(p) == p.name \in {name_list[i] : i \in 1..Len(name_list)}

\* The start loop of startup(): the processes it calls start() on.
StartsAtStartup(p) == p.name # "user code handler"

\* Variant: a start() that accepts a process whatever its state.
CanStart_any(p) == p.st \in {"initial", "started", "terminating", "deaf", "stopped"}

\* Process.start() asserts that the process was never started.
CanStart(p) == p.st = "initial"

\* Position in the list of the first start() that raises (Len + 1: none).
FirstRefused(pt, ps) ==
  LET bad == {j \in 1..Len(ps) : StartsAtStartup(pt[ps[j]]) /\ ~CanStart(pt[ps[j]])}
  IN IF bad = {} THEN Len(ps) + 1 ELSE CHOOSE j \in bad : \A k \in bad : j <= k

\* ProcessManager.startup().
Startup ==
  /\ CanCall
  /\ MayCall("startup")
  /\ callLog' = Append(callLog, "startup")
  /\ LET pt == MadeTable(procTable)
         ps == MadeProcesses(processes, procTable)
         stop == FirstRefused(pt, ps)
         begun == {ps[j] : j \in {k \in 1..Len(ps) : k < stop /\ StartsAtStartup(pt[ps[k]])}}
     IN /\ procTable' = [k \in 1..Len(pt) |->
                           IF k \in begun THEN [pt[k] EXCEPT !.st = "started"] ELSE pt[k]]
        /\ processes' = ps
        /\ lastResult' = IF stop <= Len(ps) THEN "raised" ELSE "ok"
  /\ objects' = MadeObjects(objects)
  /\ pipes' = pipes \cup {name_list[i] : i \in 1..Len(name_list)}
  /\ user_code_process' = Len(procTable) + UserCodeIndex
  /\ UNCHANGED <<kaPc, kaI, hooksTried, hookRaised>>
  /\ UNCHANGED notPM

\* ProcessManager.kick_off_user_code().
kick_off_user_code ==
  /\ CanCall
  /\ MayCall("kick_off")
  /\ callLog' = Append(callLog, "kick_off")
  /\ IF user_code_process # 0
     THEN IF CanStart(procTable[user_code_process])
          THEN /\ procTable' = [procTable EXCEPT ![user_code_process].st = "started"]
               /\ lastResult' = "true"
          ELSE /\ lastResult' = "raised"
               /\ UNCHANGED procTable
     ELSE /\ lastResult' = "false"
          /\ UNCHANGED procTable
  /\ UNCHANGED <<processes, objects, pipes, user_code_process, kaPc, kaI,
                 hooksTried, hookRaised>>
  /\ UNCHANGED notPM

\* kill_all: where the supervisor goes once hook i - 1 is behind it.
AfterHook(i) == IF i > Len(objects) THEN "terminate" ELSE "hooks"

\* kill_all is entered.
KillAllBegin ==
  /\ CanCall
  /\ MayCall("kill_all")
  /\ callLog' = Append(callLog, "kill_all")
  /\ lastResult' = "running"
  /\ kaPc' = AfterHook(1)
  /\ kaI' = 1
  /\ hooksTried' = 0
  /\ hookRaised' = FALSE
  /\ UNCHANGED <<procTable, processes, objects, pipes, user_code_process>>
  /\ UNCHANGED notPM

\* Variant: the exit hook called without the try, its exception ends kill_all.
KillAllExitHook_uncaught ==
  /\ kaPc = "hooks"
  /\ kaI <= Len(objects)
  /\ hooksTried' = hooksTried + 1
  /\ \E raises \in BOOLEAN :
       /\ hookRaised' = (hookRaised \/ raises)
       /\ IF raises
          THEN /\ kaPc' = "idle"
               /\ kaI' = 0
               /\ lastResult' = "raised"
          ELSE /\ kaI' = IF AfterHook(kaI + 1) = "hooks" THEN kaI + 1 ELSE 1
               /\ kaPc' = AfterHook(kaI + 1)
               /\ UNCHANGED lastResult
  /\ UNCHANGED <<procTable, processes, objects, pipes, user_code_process, callLog>>
  /\ UNCHANGED notPM

\* kill_all: try: obj.exit() except: pass, for the object at kaI.
KillAllExitHook ==
  /\ kaPc = "hooks"
  /\ kaI <= Len(objects)
  /\ hooksTried' = hooksTried + 1
  /\ \E raises \in BOOLEAN : hookRaised' = (hookRaised \/ raises)
  /\ kaI' = IF AfterHook(kaI + 1) = "hooks" THEN kaI + 1 ELSE 1
  /\ kaPc' = AfterHook(kaI + 1)
  /\ UNCHANGED <<procTable, processes, objects, pipes, user_code_process,
                 callLog, lastResult>>
  /\ UNCHANGED notPM

\* kill_all: if p.is_alive(): p.terminate(), for the process at kaI.
KillAllTerminate ==
  /\ kaPc = "terminate"
  /\ kaI <= Len(processes)
  /\ IF IsAlive(procTable[processes[kaI]])
     THEN /\ \E st \in {"terminating", "deaf"} :
               procTable' = [procTable EXCEPT ![processes[kaI]].st = st]
          /\ kaPc' = "join"
          /\ UNCHANGED kaI
     ELSE /\ kaI' = kaI + 1
          /\ UNCHANGED <<procTable, kaPc>>
  /\ UNCHANGED <<processes, objects, pipes, user_code_process, callLog, lastResult,
                 hooksTried, hookRaised>>
  /\ UNCHANGED notPM

\* kill_all: p.join() returns once the process has ended.
KillAllJoin ==
  /\ kaPc = "join"
  /\ ~IsAlive(procTable[processes[kaI]])
  /\ kaPc' = "terminate"
  /\ kaI' = kaI + 1
  /\ UNCHANGED <<procTable, processes, objects, pipes, user_code_process,
                 callLog, lastResult, hooksTried, hookRaised>>
  /\ UNCHANGED notPM

\* Variant: the return without self.processes.clear().
KillAllClear_keeps_processes ==
  /\ kaPc = "terminate"
  /\ kaI > Len(processes)
  /\ objects' = <<>>
  /\ pipes' = {}
  /\ kaPc' = "idle"
  /\ kaI' = 0
  /\ lastResult' = "ok"
  /\ UNCHANGED <<procTable, processes, user_code_process, callLog, hooksTried, hookRaised>>
  /\ UNCHANGED notPM

\* kill_all: the three clear() calls and the return.
KillAllClear ==
  /\ kaPc = "terminate"
  /\ kaI > Len(processes)
  /\ processes' = <<>>
  /\ objects' = <<>>
  /\ pipes' = {}
  /\ kaPc' = "idle"
  /\ kaI' = 0
  /\ lastResult' = "ok"
  /\ UNCHANGED <<procTable, user_code_process, callLog, hooksTried, hookRaised>>
  /\ UNCHANGED notPM

\* A worker's run() returns by itself.
WorkerExits(k) ==
  /\ procTable[k].st = "started"
  /\ procTable' = [procTable EXCEPT ![k].st = "stopped"]
  /\ UNCHANGED <<processes, objects, pipes, user_code_process, kaPc, kaI,
                 callLog, lastResult, hooksTried, hookRaised>>
  /\ UNCHANGED notPM

\* A worker ends on the terminate request.
WorkerDies(k) ==
  /\ procTable[k].st = "terminating"
  /\ procTable' = [procTable EXCEPT ![k].st = "stopped"]
  /\ UNCHANGED <<processes, objects, pipes, user_code_process, kaPc, kaI,
                 callLog, lastResult, hooksTried, hookRaised>>
  /\ UNCHANGED notPM

(***************************************************************************)
(* bootloader.main() and the retry loop of the __main__ block.             *)
(***************************************************************************)
\* What params.json holds in an attempt.
ParamFiles == {"ok", "unreadable", "no_localizer_ip", "no_user_code", "no_fc_watchdog"}

\* now() returns a formatted string; main() hands now() itself, not now, to
\* startup_sequence and send_message_to_state_machine, which call it as t().
NowValue == "str"

IsCallable(v) == v = "function"

\* main() is not part of the run.
FreeFrame ==
  [pc |-> "free", params |-> "ok", ret_val |-> "normal", bound |-> FALSE,
   stm |-> "none", log |-> <<>>, flushed |-> 0, fault |-> "none",
   tryFault |-> "none", callsSeen |-> 0, checkCalls |-> 0, abortSeen |-> FALSE,
   hookCalls |-> 0]

\* The frame of main() when it is entered.
NewFrame(pf) == [FreeFrame EXCEPT !.pc = "params", !.params = pf]

InitFree ==
  /\ top = [pc |-> "free", tries |-> 0, mainRuns |-> 0]
  /\ mn = FreeFrame

\* An exception is raised in the try block of main().
Raise(f, kind) ==
  [f EXCEPT !.pc = "except", !.fault = kind,
            !.tryFault = IF @ = "none" THEN kind ELSE @]

\* The statements of main() that lie in the try block.
TryPcs == {"construct", "set_user_code", "new_stm", "startup", "sequence",
           "loop", "check", "abort"}

\* while tries < MAX_TRYS
MoreTries(t) == t < MAX_TRYS

\* The loop test of the __main__ block and the call of main().
TopTest(pf) ==
  /\ top.pc = "test"
  /\ IF MoreTries(top.tries)
     THEN /\ top' = [top EXCEPT !.pc = "in_main", !.mainRuns = @ + 1]
          /\ mn' = NewFrame(pf)
     ELSE /\ top' = [top EXCEPT !.pc = "exited"]
          /\ UNCHANGED mn
  /\ UNCHANGED <<pmVars, notMain>>

\* main() has returned: break on 'normal', else count, sleep and reload.
TopAfterMain(reloaded) ==
  /\ top.pc = "in_main"
  /\ mn.pc = "done"
  /\ top' = IF mn.ret_val = "normal"
            THEN [top EXCEPT !.pc = "exited"]
            ELSE [top EXCEPT !.tries = @ + 1,
                             !.pc = IF reloaded THEN "test" ELSE "exited"]
  /\ UNCHANGED <<mn, pmVars, notMain>>

\* An exception left main(): the interpreter ends with a traceback.
TopCrash ==
  /\ top.pc = "in_main"
  /\ mn.pc = "escaped"
  /\ top' = [top EXCEPT !.pc = "crashed"]
  /\ UNCHANGED <<mn, pmVars, notMain>>

\* json.load of params.json, then the log file is opened.
MainLoadParams ==
  /\ mn.pc = "params"
  /\ mn' = IF mn.params = "unreadable"
           THEN [mn EXCEPT !.pc = "done", !.ret_val = "reload"]
           ELSE [mn EXCEPT !.pc = "construct", !.log = <<"start">>, !.flushed = 1]
  /\ UNCHANGED <<top, pmVars, notMain>>

\* process_manager = ProcessManager(..., json_data['localizer_ip'], ...)
MainConstruct ==
  /\ mn.pc = "construct"
  /\ IF mn.params = "no_localizer_ip"
     THEN /\ mn' = Raise(mn, "KeyError")
          /\ UNCHANGED pmVars
     ELSE /\ mn' = [mn EXCEPT !.pc = "set_user_code", !.bound = TRUE]
          /\ processes' = <<>>
          /\ objects' = <<>>
          /\ pipes' = {}
          /\ user_code_process' = 0
          /\ UNCHANGED <<procTable, kaPc, kaI, callLog, lastResult, hooksTried, hookRaised>>
  /\ UNCHANGED <<top, notMain>>

\* process_manager.set_user_code(json_data['user_code'])
MainSetUserCode ==
  /\ mn.pc = "set_user_code"
  /\ mn' = IF mn.params = "no_user_code"
           THEN Raise(mn, "KeyError")
           ELSE [mn EXCEPT !.pc = "new_stm"]
  /\ UNCHANGED <<top, pmVars, notMain>>

\* stm = BootloaderStateMachine(json_data['fc_watchdog'], ...), then
\* startup_sequence is entered and is about to call startup().
MainNewStm ==
  /\ mn.pc = "new_stm"
  /\ mn' = IF mn.params = "no_fc_watchdog"
           THEN Raise(mn, "KeyError")
           ELSE [mn EXCEPT !.pc = "startup", !.stm = "init", !.callsSeen = Len(callLog)]
  /\ UNCHANGED <<top, pmVars, notMain>>

\* startup_sequence: process_manager.startup() has returned or raised.
MainStartupReturned ==
  /\ mn.pc = "startup"
  /\ Len(callLog) > mn.callsSeen
  /\ kaPc = "idle"
  /\ mn' = IF lastResult = "raised"
           THEN Raise(mn, "AssertionError")
           ELSE [mn EXCEPT !.pc = "sequence"]
  /\ UNCHANGED <<top, pmVars, notMain>>

\* startup_sequence after startup(): writerow([t(), ...]), stm.create,
\* do_preflight_checks, checks_complete, and main()'s log line after it.
startup_sequence_rest ==
  /\ mn.pc = "sequence"
  /\ mn' = IF IsCallable(NowValue)
           THEN [mn EXCEPT !.pc = "loop", !.stm = "idle",
                           !.log = @ \o <<"created", "preflight", "idle", "started">>,
                           !.flushed = Len(mn.log) + 4]
           ELSE Raise(mn, "TypeError")
  /\ UNCHANGED <<top, pmVars, notMain>>

\* Ctrl-C while main() is in its try block.
MainInterrupt ==
  /\ mn.pc \in TryPcs
  /\ mn.tryFault = "none"
  /\ mn' = Raise(mn, "KeyboardInterrupt")
  /\ UNCHANGED <<top, pmVars, notMain>>

\* The two except clauses of main().
MainExcept ==
  /\ mn.pc = "except"
  /\ mn' = IF mn.fault = "KeyboardInterrupt"
           THEN [mn EXCEPT !.pc = "finally", !.log = Append(@, "interrupt"),
                           !.flushed = Len(mn.log) + 1]
           ELSE [mn EXCEPT !.pc = "finally", !.log = Append(@, "error"),
                           !.flushed = Len(mn.log) + 1, !.ret_val = "reload"]
  /\ UNCHANGED <<top, pmVars, notMain>>

\* finally: the log line, then process_manager.kill_all() is about to be
\* called; the name is unbound when the constructor call did not complete.
MainFinally ==
  /\ mn.pc = "finally"
  /\ mn' = IF mn.bound
           THEN [mn EXCEPT !.pc = "kill_all", !.log = Append(@, "final"),
                           !.callsSeen = Len(callLog)]
           ELSE [mn EXCEPT !.pc = "escaped", !.log = Append(@, "final"),
                           !.fault = "UnboundLocalError"]
  /\ UNCHANGED <<top, pmVars, notMain>>

\* finally: kill_all() has returned; last log line, flush, close, return.
MainKillAllReturned ==
  /\ mn.pc = "kill_all"
  /\ Len(callLog) > mn.callsSeen
  /\ kaPc = "idle"
  /\ mn' = [mn EXCEPT !.pc = "done", !.log = Append(@, "killed"),
                      !.flushed = Len(mn.log) + 1]
  /\ UNCHANGED <<top, pmVars, notMain>>

\* The lifecycle states in which the run loop calls check().
ChecksInState(st) == st \in {"idle", "running"}

\* The states check() can leave the lifecycle machine in (idle <-> running).
CheckStates == {"idle", "running"}

\* Variant: the abort branch without its break.
AfterAbort_no_break == "loop"

\* The break that ends the abort branch leads into the finally clause.
AfterAbort == "finally"

\* One pass of the run loop up to the call of check(); time.sleep(0.05)
\* when the lifecycle state is neither idle nor running.
MainLoopTest ==
  /\ mn.pc = "loop"
  /\ mn' = [mn EXCEPT !.pc = IF ChecksInState(mn.stm) THEN "check" ELSE "loop"]
  /\ UNCHANGED <<top, pmVars, notMain>>

\* abort = stm.check(...): it raises, or returns the flag; without abort
\* the pass ends with time.sleep(0.05).
MainCheck(abort, st, raises) ==
  /\ mn.pc = "check"
  /\ mn.checkCalls < MaxChecks
  /\ mn' = IF raises
           THEN [Raise(mn, "Exception") EXCEPT !.checkCalls = @ + 1]
           ELSE [mn EXCEPT !.checkCalls = @ + 1, !.stm = st,
                           !.abortSeen = abort,
                           !.pc = IF abort THEN "abort" ELSE "loop"]
  /\ UNCHANGED <<top, pmVars, notMain>>

\* The abort branch: log line, flush, send_message_to_state_machine inside
\* try/except: pass (its writerow([t(), ...]) comes before stm.shutdown),
\* then break.
MainAbort(hookRaises) ==
  /\ mn.pc = "abort"
  /\ mn' = IF IsCallable(NowValue)
           THEN [mn EXCEPT !.pc = AfterAbort,
                           !.log = @ \o <<"abort", "hook">>,
                           !.flushed = Len(mn.log) + 1,
                           !.hookCalls = @ + 1,
                           !.stm = IF hookRaises THEN @ ELSE "shutdown"]
           ELSE [mn EXCEPT !.pc = AfterAbort,
                           !.log = Append(@, "abort"),
                           !.flushed = Len(mn.log) + 1]
  /\ UNCHANGED <<top, pmVars, notMain>>

(***************************************************************************)
(* The ground listener (OptitrackInterfaceUDP.run) and the packet source   *)
(* fake_tracking.py.  The sequence number is the 'H' field of the          *)
(* preamble, an unsigned 16-bit integer.                                   *)
(***************************************************************************)
SeqModulus == 65536

InitOpti ==
  /\ sequence_number = 0
  /\ nSent = 0
  /\ net = <<>>
  /\ last_opti_count = 0
  /\ first_data = TRUE
  /\ lastReturn = [kind |-> "none", missed |-> 0]

\* fake_tracking.main: one pass of its loop; the packet is delivered once
\* the one before it has been read.
FakeTrackingSend ==
  /\ nSent < MaxPackets
  /\ net = <<>>
  /\ net' = <<sequence_number>>
  /\ sequence_number' = (sequence_number + 1) % SeqModulus
  /\ nSent' = nSent + 1
  /\ UNCHANGED <<last_opti_count, first_data, lastReturn>>
  /\ UNCHANGED notOpti

\* roll_over_flag
RollOver(opticount, last) == opticount < 0 + 100 /\ last > 65535 - 100

\* The test that lets a packet through.
Accepts(opticount, last) == ~(opticount <= last /\ ~RollOver(opticount, last))

\* msg_count_diff
MsgCountDiff(opticount, last, first) ==
  IF first THEN 1 ELSE (opticount - last) % SeqModulus

\* OptitrackInterfaceUDP.run: BlockingIOError when no packet is waiting,
\* False for a packet that is not let through, else the counters are
\* updated and msg_count_diff - 1 is returned as the number missed.
OptiRun ==
  /\ IF net = <<>>
     THEN /\ lastReturn' = [kind |-> "nodata", missed |-> 0]
          /\ UNCHANGED <<last_opti_count, first_data>>
     ELSE IF Accepts(net[1], last_opti_count)
          THEN /\ lastReturn' =
                    [kind |-> "accepted",
                     missed |-> MsgCountDiff(net[1], last_opti_count, first_data) - 1]
               /\ last_opti_count' = net[1]
               /\ first_data' = FALSE
          ELSE /\ lastReturn' = [kind |-> "rejected", missed |-> 0]
               /\ UNCHANGED <<last_opti_count, first_data>>
  /\ net' = <<>>
  /\ UNCHANGED <<sequence_number, nSent>>
  /\ UNCHANGED notOpti

Driver ==
  \/ FCStart
  \/ FCConnect
  \/ FCNoLink
  \/ FCBootstrap
  \/ initial_cmds
  \/ FCWarmupEnd
  \/ FCWarmupReset
  \/ FCPoll
  \/ FCReadSafety
  \/ FCReboot
  \/ FCSetZero
  \/ FCSetFive
  \/ FCReturn
  \/ FCTransmit

Init == InitFC /\ InitPM /\ InitFree /\ InitOpti

Next ==
  \/ Driver
  \/ \E v \in VoltagesOf(profile) : FCSlow(v)
  \/ Tick
  \/ \E code \in OtherCodes : OtherSetSafety(code)
  \/ \E b \in BatchesOf(profile) : PutCommands(b)

\* The driver worker in its environment.
Spec == Init /\ [][Next]_vars

KillAll ==
  \/ KillAllBegin
  \/ KillAllExitHook
  \/ KillAllTerminate
  \/ KillAllJoin
  \/ KillAllClear

NextPM ==
  \/ Startup
  \/ kick_off_user_code
  \/ KillAll
  \/ \E k \in 1..Len(procTable) : WorkerExits(k)
  \/ \E k \in 1..Len(procTable) : WorkerDies(k)

\* The supervisor's process manager and its workers.
SpecPM == Init /\ [][NextPM]_vars

TypeOK ==
  /\ fcPc \in {"created", "connect", "nolink", "bootstrap", "warmup", "reset", "poll", "safety",
               "reboot", "zero", "five", "return", "tx", "slow", "exited"}
  /\ safety \in SafetyCodes
  /\ now \in 0..(MaxScriptTicks * TickMs)
  /\ kaPc \in {"idle", "hooks", "terminate", "join"}
(***************************************************************************)
(* The battery example: the samples 6.5, 6.5, 6.3, 6.3, 6.3, 6.5 V, one    *)
(* per second.  The driver is the same; the telemetry answers with the     *)
(* next sample of the list and the clock moves one second per sample.      *)
(***************************************************************************)
C6Script == <<6500, 6500, 6300, 6300, 6300, 6500>>

ScriptVoltage ==
  C6Script[IF nSamples < Len(C6Script) THEN nSamples + 1 ELSE Len(C6Script)]

TickC6 ==
  /\ nSamples < Len(C6Script)
  /\ nSamples > 0 => last_slow_msg_time = now
  /\ ClockStep(MaxScriptTicks)

NextC6 ==
  \/ Driver
  \/ FCSlow(ScriptVoltage)
  \/ TickC6
  \/ \E code \in OtherCodes : OtherSetSafety(code)
  \/ \E b \in BatchesOf(profile) : PutCommands(b)

SpecC6 == Init /\ [][NextC6]_vars

(***************************************************************************)
(* Fairness: the supervisor keeps executing kill_all while it can, and a   *)
(* worker that honours the terminate request does end.                     *)
(***************************************************************************)
SpecPMFair ==
  /\ SpecPM
  /\ WF_vars(KillAll)
  /\ WF_vars(\E k \in 1..Len(procTable) : WorkerDies(k))

\* The statements of main() and of the __main__ block, without the run loop.
MainProgram ==
  \/ \E pf \in ParamFiles : TopTest(pf)
  \/ \E reloaded \in BOOLEAN : TopAfterMain(reloaded)
  \/ TopCrash
  \/ MainLoadParams
  \/ MainConstruct
  \/ MainSetUserCode
  \/ MainNewStm
  \/ MainStartupReturned
  \/ startup_sequence_rest
  \/ MainExcept
  \/ MainFinally
  \/ MainKillAllReturned

InitMain ==
  /\ InitFC
  /\ InitPM
  /\ InitOpti
  /\ top = [pc |-> "test", tries |-> 0, mainRuns |-> 0]
  /\ mn = [FreeFrame EXCEPT !.pc = "none"]

NextMain ==
  \/ MainProgram
  \/ MainInterrupt
  \/ Startup
  \/ KillAll
  \/ \E k \in 1..Len(procTable) : WorkerExits(k)
  \/ \E k \in 1..Len(procTable) : WorkerDies(k)

\* The bootloader from the start of its __main__ block.
SpecMain == InitMain /\ [][NextMain]_vars

(***************************************************************************)
(* Fairness: the bootloader keeps executing its own statements, and a      *)
(* worker that honours the terminate request does end.                     *)
(***************************************************************************)
SpecMainFair ==
  /\ SpecMain
  /\ WF_vars(MainProgram)
  /\ WF_vars(Startup)
  /\ WF_vars(KillAll)
  /\ WF_vars(\E k \in 1..Len(procTable) : WorkerDies(k))

\* The process table startup() leaves behind on a new manager.
StartedTable ==
  [k \in 1..Len(name_list) |->
     [name |-> name_list[k],
      st |-> IF StartsAtStartup([name |-> name_list[k], st |-> "initial"])
             THEN "started" ELSE "initial"]]

\* main() at the head of its run loop, as startup_sequence is meant to
\* leave it: six workers created, five started, lifecycle state idle.
InitLoop ==
  /\ InitFC
  /\ InitOpti
  /\ procTable = StartedTable
  /\ processes = [i \in 1..Len(name_list) |-> i]
  /\ objects = name_list
  /\ pipes = {name_list[i] : i \in 1..Len(name_list)}
  /\ user_code_process = UserCodeIndex
  /\ kaPc = "idle"
  /\ kaI = 0
  /\ callLog = <<"startup">>
  /\ lastResult = "ok"
  /\ hooksTried = 0
  /\ hookRaised = FALSE
  /\ top = [pc |-> "in_main", tries |-> 0, mainRuns |-> 1]
  /\ mn = [NewFrame("ok") EXCEPT !.pc = "loop", !.bound = TRUE, !.stm = "idle",
                                 !.log = <<"start", "created", "preflight", "idle", "started">>,
                                 !.flushed = 5, !.callsSeen = 0]

NextLoop ==
  \/ MainLoopTest
  \/ \E abort \in BOOLEAN, st \in CheckStates, raises \in BOOLEAN : MainCheck(abort, st, raises)
  \/ \E hookRaises \in BOOLEAN : MainAbort(hookRaises)
  \/ MainInterrupt
  \/ MainExcept
  \/ MainFinally
  \/ MainKillAllReturned
  \/ KillAll
  \/ \E k \in 1..Len(procTable) : WorkerExits(k)
  \/ \E k \in 1..Len(procTable) : WorkerDies(k)

\* The run loop of main() and what follows it.
SpecLoop == InitLoop /\ [][NextLoop]_vars

NextOpti ==
  \/ FakeTrackingSend
  \/ OptiRun

\* The listener fed by fake_tracking.py, in order and without loss.
InitStream == Init /\ profile = "open"

SpecOpti == InitStream /\ [][NextOpti]_vars

(***************************************************************************)
(* Properties.                                                             *)
(***************************************************************************)
InOperating == fcPc \in {"poll", "safety", "reboot", "zero", "five", "return", "tx", "slow"}

\* C1: in every reachable state each analog channel of the live command
\* vector lies in [900, 1950], whatever the batches contain.
C1_CommandsInEnvelope ==
  \A ch \in Analog : CMDS[ch] >= 900 /\ CMDS[ch] <= 1950

\* A controller asked for 2000 until the roll channel reached the upper edge,
\* and that vector was transmitted.
C1_Witness ==
  /\ CMDS.roll = 1950
  /\ nBatches = MaxRampBatches
  /\ tx = [phase |-> "operating", frame |-> Frame(CMDS)]

\* C2: every value adopted for an analog channel differs from the
\* channel's previous live value by at most 50.
C2_SlewBounded ==
  [][\A ch \in Analog : Abs(CMDS'[ch] - CMDS[ch]) <= 50]_vars

\* C3: when the driver has read EmergencyStop or Shutdown, the safety code
\* equals Connecting(5) at the moment the worker exits, on every path.
C3_ExitLeavesConnecting ==
  [][(fcPc # "exited" /\ fcPc' = "exited" /\ safetyRead' \in {1, 2}) => safety' = 5]_vars

CenteredDisarmedFrame ==
  <<1500, 1500, 900, 1500, F(1000), F(1500)>>

\* C4 as stated: every warm-up frame is the disarmed, centered vector and the
\* safety code equals Connecting(5) in every state of the warm-up.
C4_WarmupAlwaysConnecting ==
  /\ tx.phase = "warmup" => tx.frame = CenteredDisarmedFrame
  /\ fcPc = "warmup" => safety = 5

\* C4, amended: every warm-up frame is the disarmed, centered vector, the
\* warm-up lasts the configured 5 s, and the safety code equals Connecting(5)
\* in every state of the warm-up in which no other worker has written the
\* safety code since the driver set it.
C4_WarmupDisarmed ==
  /\ tx.phase = "warmup" => tx.frame = CenteredDisarmedFrame
  /\ fcPc = "warmup" => CMDS.aux1 = F(1000) /\ CMDS.throttle = 900
  /\ (fcPc = "reset" \/ InOperating) => now >= start_time + 5000
  /\ (fcPc = "warmup" /\ ~othersWrote) => safety = 5

\* The warm-up has run its full time, frames were sent, nobody interfered.
C4_Witness ==
  /\ fcPc = "reset"
  /\ tx.phase = "warmup"
  /\ ~othersWrote
  /\ now = start_time + 5000

LiveWorkers == {k \in 1..Len(procTable) : IsAlive(procTable[k])}

BookkeepingEmpty == processes = <<>> /\ objects = <<>> /\ pipes = {}

LastCallIs(op) == callLog # <<>> /\ callLog[Len(callLog)] = op

Called(op) == \E i \in 1..Len(callLog) : callLog[i] = op

\* A call of kick_off_user_code that follows a teardown.
KickAfterKill ==
  \E i, j \in 1..Len(callLog) : i < j /\ callLog[i] = "kill_all" /\ callLog[j] = "kick_off"

\* C7: after startup(), each return of kill_all (the first and a second one
\* in a row) is a normal return that leaves no live worker and empty
\* process, object and pipe bookkeeping.
C7_TeardownIdempotent ==
  (kaPc = "idle" /\ LastCallIs("kill_all") /\ ~KickAfterKill) =>
     /\ lastResult = "ok"
     /\ LiveWorkers = {}
     /\ BookkeepingEmpty

\* kill_all has returned twice in a row after startup().
C7_Witness ==
  /\ kaPc = "idle"
  /\ callLog = <<"startup", "kill_all", "kill_all">>
  /\ lastResult = "ok"

\* C8: kill_all, once entered, eventually returns.
C8_TeardownReturns == (kaPc # "idle") ~> (kaPc = "idle")

\* C9: an exit hook that raises prevents neither the remaining hooks, nor
\* the termination of every live process of the list, nor the clearing of
\* the bookkeeping.
C9_HookFailureContained ==
  (hookRaised /\ LastCallIs("kill_all")) =>
     /\ lastResult # "raised"
     /\ kaPc \in {"terminate", "join"} => hooksTried = Len(objects)
     /\ (kaPc = "terminate" /\ kaI > Len(processes)) =>
           \A j \in 1..Len(processes) : ~IsAlive(procTable[processes[j]])
     /\ kaPc = "idle" => (lastResult = "ok" /\ BookkeepingEmpty /\ hooksTried = Len(name_list))

\* kill_all returned although one of the six hooks raised.
C9_Witness ==
  /\ hookRaised
  /\ kaPc = "idle"
  /\ LastCallIs("kill_all")
  /\ hooksTried = 6
  /\ \E k \in 1..Len(procTable) : procTable[k].st = "stopped"

\* C10: startup() on an empty manager creates the six workers and starts
\* all of them but the user-code worker, and no user-code worker is ever
\* started unless kick_off_user_code() has been called.
C10_UserCodeHeld ==
  /\ [](\A k \in 1..Len(procTable) :
          (procTable[k].name = "user code handler" /\ procTable[k].st # "initial")
             => Called("kick_off"))
  /\ [][(LastCallIs("startup")' /\ callLog' # callLog /\ processes = <<>>) =>
          /\ Len(processes') = 6
          /\ \A j \in 1..6 :
               /\ procTable'[processes'[j]].name = name_list[j]
               /\ procTable'[processes'[j]].st =
                    IF name_list[j] = "user code handler" THEN "initial" ELSE "started"]_vars

\* startup() has run: five workers started, the user-code worker held.
C10_Witness ==
  /\ callLog = <<"startup">>
  /\ lastResult = "ok"
  /\ \A j \in 1..6 :
       procTable[processes[j]].st =
          IF name_list[j] = "user code handler" THEN "initial" ELSE "started"

\* C11 (as stated): no call of kick_off_user_code() raises, and only the
\* first call after startup() answers true.
C11_KickOffOnce ==
  LastCallIs("kick_off") =>
     /\ lastResult \in {"true", "false"}
     /\ lastResult = "true" =>
          Cardinality({i \in 1..Len(callLog) : callLog[i] = "kick_off"}) = 1

\* The process objects named 'fc handler' that the manager holds in its
\* list or that are alive.
DriversCreatedOrLive ==
  {k \in 1..Len(procTable) :
     /\ procTable[k].name = "fc handler"
     /\ \/ IsAlive(procTable[k])
        \/ \E j \in 1..Len(processes) : processes[j] = k}

DriversLive ==
  {k \in 1..Len(procTable) : procTable[k].name = "fc handler" /\ IsAlive(procTable[k])}

\* C18 (as stated): after any sequence of startup(), kick_off_user_code()
\* and kill_all() calls at most one 'fc handler' worker is created or live.
C18_OneDriverCreatedOrLive == Cardinality(DriversCreatedOrLive) <= 1

\* C18 (amended): after any sequence of startup(), kick_off_user_code() and
\* kill_all() calls at most one 'fc handler' worker is alive; a startup()
\* on a manager that already holds workers adds a second 'fc handler'
\* process object, which is never started.
C18_OneDriverLive ==
  /\ Cardinality(DriversLive) <= 1
  /\ \A k \in DriversCreatedOrLive \ DriversLive : procTable[k].st \in {"initial", "stopped"}

\* Two startup() calls in a row: two 'fc handler' objects, one of them alive.
C18_Witness ==
  /\ callLog = <<"startup", "startup">>
  /\ lastResult = "raised"
  /\ Cardinality(DriversCreatedOrLive) = 2
  /\ Cardinality(DriversLive) = 1

C20_ResetOnlyOverConnecting ==
  [][(fcPc = "reset" /\ fcPc' = "poll") => safety = 5]_vars

\* main() is over: it returned, or an exception left it.
MainOver == mn.pc \in {"done", "escaped"}

\* C12 (as stated): when an exception other than an interrupt was raised in
\* the try block of main(), the fault is in the flushed part of the log,
\* kill_all has run, and main() has returned rather than let an exception
\* escape.
C12_FaultsContained ==
  (MainOver /\ mn.tryFault \notin {"none", "KeyboardInterrupt"}) =>
     /\ mn.pc = "done"
     /\ \E i \in 1..mn.flushed : mn.log[i] = "error"
     /\ LastCallIs("kill_all")
     /\ lastResult = "ok"

C15_BringUpReachesIdle ==
  (mn.params = "ok" /\ mn.tryFault # "KeyboardInterrupt"
     /\ mn.pc \in {"loop", "check", "abort", "except", "finally", "kill_all",
                   "done", "escaped"}) =>
     /\ mn.tryFault = "none"
     /\ mn.stm \in {"idle", "running", "shutdown"}

\* C16 (as stated): an attempt ended by an unreadable params.json or by a
\* missing key ends with main() returning 'reload'.
C16_MalformedParamsReload ==
  (MainOver /\ (mn.params = "unreadable" \/ mn.tryFault = "KeyError")) =>
     /\ mn.pc = "done"
     /\ mn.ret_val = "reload"

\* C17 (as stated): the __main__ block always comes to its end.
C17_TopLoopEnds == <>(top.pc \in {"exited", "crashed"})

\* C21: the poll is always ready to return; a poll that finds no fresh batch
\* leaves all six channels of the live vector as they are; the vector does
\* not change between the poll and the end of the cycle; the frame sent in
\* a cycle is the live vector; and at the start of every cycle the live
\* vector is the frame sent last.  So a cycle without a fresh batch sends
\* the previous frame again.
C21_NoBatchHolds ==
  /\ [](fcPc = "poll" => ENABLED FCPoll)
  /\ []((fcPc = "poll" /\ tx.phase # "none") => tx.frame = Frame(CMDS))
  /\ [][(fcPc = "poll" /\ fcPc' # "poll" /\ cmdBuf = <<>>) =>
          (CMDS' = CMDS /\ fcPc' = "safety")]_vars
  /\ [][(fcPc \in {"safety", "tx", "slow"}) => (CMDS' = CMDS)]_vars
  /\ [][(fcPc = "tx" /\ fcPc' = "slow") => tx'.frame = Frame(CMDS)]_vars

\* No batch was ever published, and the driver has sent the frame of its
\* second or a later Operating cycle.
C21_Witness ==
  /\ fcPc = "slow"
  /\ nSamples >= 1
  /\ nBatches = 0
  /\ tx = [phase |-> "operating", frame |-> CenteredDisarmedFrame]

\* C22 (as stated): once the driver has read EmergencyStop(1) or
\* Shutdown(2), each of its steps is the next one of: reboot and report,
\* write of Normal(0), write of Connecting(5), exit; it sends no frame and
\* takes no telemetry sample.
C22_SafetyExitOrder ==
  [][(safetyRead \in {1, 2} /\ fcPc' # fcPc) =>
       /\ tx' = tx
       /\ nSamples' = nSamples
       /\ \/ fcPc = "reboot" /\ fcPc' = "zero" /\ pipe' = Append(pipe, "estop")
                /\ safety' = safety
          \/ fcPc = "zero" /\ fcPc' = "five" /\ safety' = 0 /\ pipe' = pipe
          \/ fcPc = "five" /\ fcPc' = "return" /\ safety' = 5 /\ pipe' = pipe
          \/ fcPc = "return" /\ fcPc' = "exited" /\ safety' = safety /\ pipe' = pipe]_vars

\* C23 (as stated): at most one fault report is ever sent; a worker that
\* exits without having read a stop code has sent exactly one; and a step
\* at the opening of the link that does not open it leaves 'board
\* connected' unset and the safety code unwritten.
C23_FaultsCaught ==
  /\ [](Cardinality({i \in 1..Len(pipe) : pipe[i] = "error"}) <= 1)
  /\ []((fcPc = "exited" /\ safetyRead \notin {1, 2}) =>
          \E i \in 1..Len(pipe) : pipe[i] = "error")
  /\ [][(fcPc = "exited") => (fcPc' = "exited" /\ tx' = tx /\ pipe' = pipe)]_vars
  /\ [][(fcPc = "connect" /\ fcPc' \notin {"connect", "bootstrap"}) =>
          (~board_connected' /\ safety' = safety)]_vars

\* The driver left through its fault handler.
FaultReported == \E i \in 1..Len(pipe) : pipe[i] = "error"

\* C24 (as stated): the safety code equals Connecting(5) only while the
\* driver is in its warm-up (up to the reset that ends it) or after the
\* driver went through the safety exit.
C24_ConnectingOnlyWarmupOrExit ==
  safety = 5 =>
     \/ fcPc \in {"warmup", "reset"}
     \/ fcPc \in {"return", "exited"} /\ safetyRead \in {1, 2}

\* C24 (amended): the safety code equals Connecting(5) only while the driver
\* is in its warm-up (up to the reset that ends it), after the driver went
\* through the safety exit, or after the driver left the warm-up through
\* its fault handler; it is never 5 while the driver is in its Operating
\* loop.
C24_ConnectingNeverOperating ==
  safety = 5 =>
     \/ fcPc \in {"warmup", "reset"}
     \/ fcPc \in {"return", "exited"} /\ safetyRead \in {1, 2}
     \/ fcPc = "exited" /\ safetyRead = NoCode /\ nSamples = 0 /\ FaultReported

\* A frame of the warm-up failed: the driver is gone, the code is still 5.
C24_Witness ==
  /\ fcPc = "exited"
  /\ safety = 5
  /\ safetyRead = NoCode
  /\ tx.phase = "warmup"
  /\ pipe = <<"trying", "error">>

\* C25 (as stated): from the driver's reading of EmergencyStop or Shutdown
\* to its exit, the safety code is never Normal(0).
C25_NoIntermediateNormal ==
  (safetyRead \in {1, 2} /\ fcPc \in {"reboot", "zero", "five", "return"}) => safety # 0

\* C26 (as stated): the low-voltage watchdog never writes LowVoltage(4) over
\* an EmergencyStop(1) or Shutdown(2) that the driver has not acted on.
C26_StopCodeNotErased ==
  [][lvCount' > lvCount => safety \notin {1, 2}]_vars

\* C27 (as stated): the first telemetry sample after the warm-up, when it
\* is below the threshold, writes no LowVoltage(4).
C27_FirstSampleNoEscalation ==
  [][(nSamples = 0 /\ nSamples' = 1 /\ voltage' < 6400) =>
       (lvCount' = lvCount /\ safety' = safety /\ low_voltage_warning' = low_voltage_warning)]_vars

\* C28 (as stated): once LowVoltage(4) has been written the driver stays in
\* its Operating loop, a fault of the link apart, and never writes
\* Normal(0).
C28_LowVoltageSticky ==
  /\ [](lvCount > 0 =>
          \/ fcPc \in {"poll", "safety", "tx", "slow"}
          \/ fcPc = "exited" /\ FaultReported /\ safetyRead \notin {1, 2})
  /\ [][(lvCount > 0 /\ fcPc' # fcPc) => (safety' = safety \/ safety' # 0)]_vars

\* C28 (amended): once LowVoltage(4) has been written the driver leaves its
\* Operating loop only through the safety exit, after reading an
\* EmergencyStop or Shutdown written by another worker, or through its
\* fault handler; it writes Normal(0) only as the step of that safety exit;
\* and a later sample at or above 6.4 V refreshes the last-above-threshold
\* timestamp and changes neither the safety code nor the warning flag.
C28_LowVoltageDoesNotEndDriver ==
  /\ []((lvCount > 0 /\ safetyRead \notin {1, 2}) =>
          \/ fcPc \in {"poll", "safety", "tx", "slow"}
          \/ fcPc = "exited" /\ FaultReported)
  /\ []((lvCount > 0 /\ fcPc \in {"tx", "slow"}) => safetyRead \in {0, 4})
  /\ [][(lvCount > 0 /\ fcPc' # fcPc /\ safety' # safety /\ safety' = 0) =>
          (fcPc = "zero" /\ safetyRead \in {1, 2})]_vars
  /\ [][(lvCount > 0 /\ nSamples' = nSamples + 1 /\ voltage' >= 6400) =>
          /\ safety' = safety
          /\ low_voltage_warning' = low_voltage_warning
          /\ last_time_above_threshold' = now
          /\ fcPc' = "poll"]_vars

\* After the escalation a sample of 6.4 V or more came in and a frame was
\* sent: the code is still 4 and the warning is still up.
C28_Witness ==
  /\ lvCount = 1
  /\ safety = 4
  /\ low_voltage_warning
  /\ voltage >= 6400
  /\ last_time_above_threshold = last_slow_msg_time
  /\ last_time_above_threshold > 5000
  /\ fcPc = "slow"
  /\ tx.phase = "operating"

\* kill_all has returned and startup() has not been called since.
TornDown ==
  /\ kaPc = "idle"
  /\ \E i \in 1..Len(callLog) :
       /\ callLog[i] = "kill_all"
       /\ \A j \in 1..Len(callLog) : j > i => callLog[j] # "startup"

\* C29 (as stated): after kill_all has returned, and until the next
\* startup(), no worker is alive.
C29_NoneAliveAfterTeardown == TornDown => LiveWorkers = {}

\* C30: up to the end of the warm-up the live vector carries aux1 = 1000 and
\* aux2 = 1500; the aux channels of the live vector change only when a batch
\* is adopted, and then to the aux values of that batch; and every frame
\* carries the aux values of the live vector.
C30_AuxPassThrough ==
  /\ []((fcPc \in {"created", "connect", "nolink", "bootstrap", "warmup", "reset"}) =>
          (CMDS.aux1 = F(1000) /\ CMDS.aux2 = F(1500)))
  /\ [][(CMDS'.aux1 # CMDS.aux1 \/ CMDS'.aux2 # CMDS.aux2) =>
          (fcPc = "poll" /\ cmdBuf # <<>>)]_vars
  /\ [][(fcPc = "poll" /\ fcPc' # "poll" /\ cmdBuf # <<>>) =>
          (CMDS'.aux1 = cmdBuf[1][5] /\ CMDS'.aux2 = cmdBuf[1][6]
             /\ \A ch \in Analog : CMDS'[ch] >= 900 /\ CMDS'[ch] <= 1950)]_vars
  /\ [][(tx' # tx) => (tx'.frame[5] = CMDS'.aux1 /\ tx'.frame[6] = CMDS'.aux2)]_vars

\* The batch with aux1 = 1800 was adopted and its aux values were sent.
C30_Witness ==
  /\ tx.phase = "operating"
  /\ tx.frame[5] = F(1800)
  /\ tx.frame[6] = F(1500)
  /\ nBatches = 1
  /\ profile = "open"

\* C31 (as stated): of the stream of fake_tracking.py, delivered in order
\* and without loss, the listener lets every packet through and reports
\* zero missed packets each time.
C31_StreamAllAccepted ==
  /\ lastReturn.kind # "rejected"
  /\ lastReturn.kind = "accepted" => lastReturn.missed = 0
====
